---- MODULE Spec2Model ----
(***************************************************************************)
(* State-machine model of the Promoted Go delivery client example.        *)
(* The repository holds two revisions of the same program: src/main.go    *)
(* and src/unnamed/part_000.  Each run executes main() once, top to       *)
(* bottom; the variable "program" says which revision is running and      *)
(* "pc" is main's position.                                               *)
(*                                                                         *)
(* The process environment, the delivery client's Build() and Deliver()   *)
(* live outside the repository: the environment is drawn at Init, and the *)
(* two library calls return nondeterministically (an error, or a value).  *)
(***************************************************************************)
EXTENDS Integers, Sequences, FiniteSets, TLC

VARIABLES
    program,            \* which revision of main() runs
    env,                \* the process environment: key -> [exists, val]
    pc,                 \* main's position
    config,             \* the Config struct (main.go:34)
    envReads,           \* history: the environment reads made so far, in order
    stdout,             \* lines written to standard output
    stderr,             \* lines written to standard error
    exitCode,           \* -1 while running, then 0, 1 (os.Exit(1)) or 2 (panic)
    client,             \* the delivery client built from config, or NoClient
    products,           \* the value returned by getProducts()
    productsMap,        \* main's productsMap: product ID -> product
    requestInsertions,  \* the insertions built for the request
    req,                \* the DeliveryRequest passed to Deliver, or NoRequest
    deliverCalls,       \* history: number of calls of client.Deliver
    response,           \* the DeliveryResponse returned by Deliver, or NoResponse
    idx,                \* position of the range loop over response insertions
    steps               \* history: the steps of main started so far, in order

vars == <<program, env, pc, config, envReads, stdout, stderr, exitCode, client,
          products, productsMap, requestInsertions, req, deliverCalls,
          response, idx, steps>>

----------------------------------------------------------------------------
(* Bounds of the model *)

\* longest list of insertions a response carries
MaxResp == 3

\* longest product list handed to newTestRequestInsertions
MaxProducts == 2

----------------------------------------------------------------------------
(* The process environment *)

RequiredKeys == <<"METRICS_API_ENDPOINT_URL", "METRICS_API_KEY",
                  "DELIVERY_API_ENDPOINT_URL", "DELIVERY_API_KEY">>

Programs == {"main.go", "part_000"}

\* A variable of the environment is unset, or set to a string.
Unset(empty) == [exists |-> FALSE, val |-> empty]

Set(v) == [exists |-> TRUE, val |-> v]

\* values tried for the four required variables
StringEnvValues == {Unset(""), Set(""), Set("https://x.promoted.ai")}

\* values tried for ONLY_LOG
BoolEnvValues == {Unset(""), Set(""), Set("true"), Set("1"),
                  Set("false"), Set("yes"), Set("tRuE")}

\* values tried for BLOCKING_SHADOW_TRAFFIC
BlockingEnvValues == {Unset(""), Set("T"), Set("on")}

\* values tried for SHADOW_TRAFFIC_DELIVERY_RATE: a Go string is a sequence of
\* bytes, and strconv.ParseFloat scans it byte by byte
FloatEnvValues == {Unset(<<>>), Set(<<>>),
                   Set(<<"0", ".", "5">>),
                   Set(<<"5", "e", "-", "1">>),
                   Set(<<"1">>),
                   Set(<<"-", "2", ".", "5", "0">>),
                   Set(<<"1", "e", "4", "0", "0">>),
                   Set(<<"1", ".", "2", ".", "5">>),
                   Set(<<"a", "0">>),
                   Set(<<"I", "n", "f">>)}

\* os.Getenv: the value, or "" when the variable is not present
Getenv(e, key) == IF e[key].exists THEN e[key].val ELSE ""

\* os.LookupEnv: the value and whether the variable is present
LookupEnv(e, key) == [val |-> e[key].val, exists |-> e[key].exists]

----------------------------------------------------------------------------
(* strconv, as main.go:175 and main.go:187 call it *)

\* strconv.ParseBool: a switch over twelve literals, anything else is a
\* syntax error (and the value returned with the error is false)
ParseBool(str) ==
    CASE str \in {"1", "t", "T", "TRUE", "true", "True"} ->
            [value |-> TRUE, err |-> FALSE]
      [] str \in {"0", "f", "F", "FALSE", "false", "False"} ->
            [value |-> FALSE, err |-> FALSE]
      [] OTHER -> [value |-> FALSE, err |-> TRUE]

IsDigit(c) == c \in {"0", "1", "2", "3", "4", "5", "6", "7", "8", "9"}

DigitVal(c) ==
    CASE c = "0" -> 0 [] c = "1" -> 1 [] c = "2" -> 2 [] c = "3" -> 3
      [] c = "4" -> 4 [] c = "5" -> 5 [] c = "6" -> 6 [] c = "7" -> 7
      [] c = "8" -> 8 [] c = "9" -> 9

\* ASCII lower case of the letters the special values are spelled with
Lower(c) ==
    CASE c = "I" -> "i" [] c = "N" -> "n" [] c = "F" -> "f" [] c = "A" -> "a"
      [] c = "T" -> "t" [] c = "Y" -> "y" [] c = "E" -> "e"
      [] OTHER -> c

LowerAll(s) == [i \in 1..Len(s) |-> Lower(s[i])]

\* the index just after the run of digits of s that starts at i
RECURSIVE ScanDigits(_, _)
ScanDigits(s, i) ==
    IF i <= Len(s) /\ IsDigit(s[i]) THEN ScanDigits(s, i + 1) ELSE i

\* the number written by the digits s[i], ..., s[j-1], after the digits that
\* already gave acc
RECURSIVE DigitsValue(_, _, _, _)
DigitsValue(s, i, j, acc) ==
    IF i >= j THEN acc
    ELSE DigitsValue(s, i + 1, j, IF IsDigit(s[i]) THEN 10 * acc + DigitVal(s[i]) ELSE acc)

\* mant * 10^exp with the trailing zeros of mant moved into exp, so that equal
\* numbers are equal records
RECURSIVE Normalize(_, _)
Normalize(mant, exp) ==
    IF mant = 0 THEN [kind |-> "finite", mant |-> 0, exp |-> 0]
    ELSE IF mant % 10 = 0 THEN Normalize(mant \div 10, exp + 1)
    ELSE [kind |-> "finite", mant |-> mant, exp |-> exp]

\* number of decimal digits of a positive number
RECURSIVE NumDigits(_)
NumDigits(n) == IF n < 10 THEN 1 ELSE 1 + NumDigits(n \div 10)

Abs(n) == IF n < 0 THEN -n ELSE n

\* the float64 literal 0.0 (main.go:40)
FloatZero == [kind |-> "finite", mant |-> 0, exp |-> 0]

SyntaxError == [value |-> FloatZero, err |-> TRUE]

\* strconv.ParseFloat(s, 64) on decimal input: the special values (inf,
\* infinity, nan, any case, inf with an optional sign), else
\* [sign] digits [. digits] [e [sign] digits] with a digit in the mantissa;
\* the whole string must be consumed.  A value beyond the float64 range is
\* returned with a range error, one below it underflows to zero.
ParseFloat(s) ==
    LET hasSign == Len(s) >= 1 /\ s[1] \in {"+", "-"}
        neg     == hasSign /\ s[1] = "-"
        i0      == IF hasSign THEN 2 ELSE 1
        rest    == LowerAll(SubSeq(s, i0, Len(s)))
        i1      == ScanDigits(s, i0)
        hasDot  == i1 <= Len(s) /\ s[i1] = "."
        f0      == IF hasDot THEN i1 + 1 ELSE i1
        f1      == ScanDigits(s, f0)
        nFrac   == f1 - f0
        sawDigits == (i1 - i0) + nFrac > 0
        hasExp  == f1 <= Len(s) /\ Lower(s[f1]) = "e"
        e0      == f1 + 1
        eSigned == hasExp /\ e0 <= Len(s) /\ s[e0] \in {"+", "-"}
        eNeg    == eSigned /\ s[e0] = "-"
        e1      == IF eSigned THEN e0 + 1 ELSE e0
        e2      == ScanDigits(s, e1)
        expOK   == ~hasExp \/ e2 > e1
        end     == IF hasExp THEN e2 ELSE f1
        mant    == DigitsValue(s, i0, f1, 0)
        eVal    == IF hasExp THEN DigitsValue(s, e1, e2, 0) ELSE 0
        exp     == (IF eNeg THEN -eVal ELSE eVal) - nFrac
        norm    == Normalize(IF neg THEN -mant ELSE mant, exp)
        lead    == NumDigits(Abs(norm.mant)) + norm.exp - 1
    IN  IF rest \in {<<"i", "n", "f">>, <<"i", "n", "f", "i", "n", "i", "t", "y">>}
        THEN [value |-> [kind |-> IF neg THEN "-inf" ELSE "+inf", mant |-> 0, exp |-> 0],
              err |-> FALSE]
        ELSE IF ~hasSign /\ rest = <<"n", "a", "n">>
        THEN [value |-> [kind |-> "nan", mant |-> 0, exp |-> 0], err |-> FALSE]
        ELSE IF ~sawDigits \/ ~expOK \/ end # Len(s) + 1 THEN SyntaxError
        ELSE IF norm.mant # 0 /\ lead > 308
        THEN [value |-> [kind |-> IF neg THEN "-inf" ELSE "+inf", mant |-> 0, exp |-> 0],
              err |-> TRUE]
        ELSE IF norm.mant # 0 /\ lead < -324 THEN [value |-> FloatZero, err |-> FALSE]
        ELSE [value |-> norm, err |-> FALSE]

----------------------------------------------------------------------------
(* main.go's own functions *)

\* parseBoolEnv (main.go:170)
parseBoolEnv(e, key, defaultValue) ==
    LET l == LookupEnv(e, key)
    IN  IF ~l.exists THEN defaultValue
        ELSE IF ParseBool(l.val).err THEN defaultValue
        ELSE ParseBool(l.val).value

\* parseFloatEnv without the check of ParseFloat's error: the value that came
\* with the error is returned
parseFloatEnvIgnoresErr(e, key, defaultValue) ==
    LET l == LookupEnv(e, key)
    IN  IF ~l.exists THEN defaultValue ELSE ParseFloat(l.val).value

\* parseFloatEnv (main.go:182)
parseFloatEnv(e, key, defaultValue) ==
    LET l == LookupEnv(e, key)
    IN  IF ~l.exists THEN defaultValue
        ELSE IF ParseFloat(l.val).err THEN defaultValue
        ELSE ParseFloat(l.val).value

\* the error values validateConfig can return
NoError == "nil"

\* validateConfig without its last check
validateConfigNoDeliveryKey(c) ==
    IF c.MetricsApiEndpointUrl = "" THEN "metricsApiEndpointUrl needs to be specified"
    ELSE IF c.MetricsApiKey = "" THEN "metricsApiKey needs to be specified"
    ELSE IF c.DeliveryApiEndpointUrl = "" THEN "deliveryApiEndpointUrl needs to be specified"
    ELSE "nil"

\* validateConfig checking the two keys before the two endpoints
validateConfigKeysFirst(c) ==
    IF c.MetricsApiKey = "" THEN "metricsApiKey needs to be specified"
    ELSE IF c.DeliveryApiKey = "" THEN "deliveryApiKey needs to be specified"
    ELSE IF c.MetricsApiEndpointUrl = "" THEN "metricsApiEndpointUrl needs to be specified"
    ELSE IF c.DeliveryApiEndpointUrl = "" THEN "deliveryApiEndpointUrl needs to be specified"
    ELSE "nil"

\* validateConfig (main.go:96)
validateConfig(c) ==
    IF c.MetricsApiEndpointUrl = "" THEN "metricsApiEndpointUrl needs to be specified"
    ELSE IF c.MetricsApiKey = "" THEN "metricsApiKey needs to be specified"
    ELSE IF c.DeliveryApiEndpointUrl = "" THEN "deliveryApiEndpointUrl needs to be specified"
    ELSE IF c.DeliveryApiKey = "" THEN "deliveryApiKey needs to be specified"
    ELSE NoError

----------------------------------------------------------------------------
(* Products, insertions and the request *)

\* the nil pointer, and the zero value of a variable not assigned yet
Nil == [isNil |-> TRUE]

\* getProducts (main.go:207)
getProducts ==
    << [ID |-> "1", Name |-> "Product 1", Price |-> 100],
       [ID |-> "2", Name |-> "Product 2", Price |-> 200] >>

\* Go values of dynamic type, as structpb.NewValue receives them in a
\* map[string]any
GoInt(v) == [go |-> "int", int |-> v]

GoFloat64(mant, exp) == [go |-> "float64", float |-> Normalize(mant, exp)]

GoString(v) == [go |-> "string", str |-> v]

\* structpb.NewValue on one value: an int is converted to float64 and becomes
\* a NumberValue (the conversion is exact below 2^53, which covers every
\* integer of the model), a float64 a NumberValue, a string a StringValue
NewScalarValue(x) ==
    CASE x.go = "int" -> [kind |-> "number", number |-> Normalize(x.int, 0)]
      [] x.go = "float64" -> [kind |-> "number", number |-> x.float]
      [] x.go = "string" -> [kind |-> "string", str |-> x.str]

\* structpb.NewValue on a map[string]any of such values: a struct value with
\* one field per key; none of these dynamic types is rejected
NewValue(m) ==
    [err |-> FALSE,
     value |-> [kind |-> "struct",
                fields |-> [k \in DOMAIN m |-> NewScalarValue(m[k])]]]

\* Value.GetStructValue
GetStructValue(v) == IF v.kind = "struct" THEN [fields |-> v.fields] ELSE Nil

\* newTestRequestInsertions with one properties value shared by all the
\* insertions: each carries the price of the last product
newTestRequestInsertionsSharedProps(ps) ==
    [i \in 1..Len(ps) |->
        LET insertionPropsValue == NewValue([price |-> GoInt(ps[Len(ps)].Price)])
        IN  [ContentId |-> ps[i].ID,
             Properties |-> [StructField |->
                 [Struct |-> GetStructValue(insertionPropsValue.value)]]]]

\* newTestRequestInsertions (main.go:145): one insertion per product, in order
newTestRequestInsertions(ps) ==
    [i \in 1..Len(ps) |->
        LET insertionPropsValue == NewValue([price |-> GoInt(ps[i].Price)])
        IN  [ContentId |-> ps[i].ID,
             Properties |-> [StructField |->
                 [Struct |-> GetStructValue(insertionPropsValue.value)]]]]

\* the insertions of the earlier revision (part_000:71): a ContentId only
bareInsertions(ps) ==
    [i \in 1..Len(ps) |-> [ContentId |-> ps[i].ID, Properties |-> Nil]]

\* the loop of main.go:62 over the first n products: a later product
\* replaces an earlier one of the same ID
RECURSIVE buildProductsMap(_, _)
buildProductsMap(ps, n) ==
    IF n = 0 THEN << >>
    ELSE LET m == buildProductsMap(ps, n - 1)
         IN  [id \in (DOMAIN m) \cup {ps[n].ID} |->
                 IF id = ps[n].ID THEN ps[n] ELSE m[id]]

\* newTestRequest that does not pass onlyLog on
newTestRequestDropsOnlyLog(insertions, onlyLog) ==
    LET requestPropsValue ==
            NewValue([category |-> GoString("topic"), priceMin |-> GoFloat64(10, 0)])
    IN  [req |->
            [Request |->
                [UserInfo |-> [AnonUserId |-> "testAnonUserId1",
                               UserId |-> "testUserId1"],
                 UseCase |-> "SEARCH",
                 SearchQuery |-> "query",
                 Paging |-> [Starting |-> [Offset |-> 0], Size |-> 3],
                 DisablePersonalization |-> FALSE,
                 Properties |-> [StructField |->
                     [Struct |-> GetStructValue(requestPropsValue.value)]],
                 Insertion |-> insertions],
             OnlyLog |-> FALSE],
          err |-> FALSE]

\* newTestRequest (main.go:112)
newTestRequest(insertions, onlyLog) ==
    LET requestPropsValue ==
            NewValue([category |-> GoString("topic"), priceMin |-> GoFloat64(10, 0)])
    IN  IF requestPropsValue.err THEN [req |-> Nil, err |-> TRUE]
        ELSE [req |->
                [Request |->
                    [UserInfo |-> [AnonUserId |-> "testAnonUserId1",
                                   UserId |-> "testUserId1"],
                     UseCase |-> "SEARCH",
                     SearchQuery |-> "query",
                     Paging |-> [Starting |-> [Offset |-> 0], Size |-> 3],
                     DisablePersonalization |-> FALSE,
                     Properties |-> [StructField |->
                         [Struct |-> GetStructValue(requestPropsValue.value)]],
                     Insertion |-> insertions],
                 OnlyLog |-> onlyLog],
              err |-> FALSE]

\* NewPromotedDeliveryClient (main.go:194): what the builder is given
NewPromotedDeliveryClient(c) ==
    [DeliveryEndpoint |-> c.DeliveryApiEndpointUrl,
     DeliveryAPIKey |-> c.DeliveryApiKey,
     DeliveryTimeoutMillis |-> 1000,
     MetricsEndpoint |-> c.MetricsApiEndpointUrl,
     MetricsAPIKey |-> c.MetricsApiKey,
     MetricsTimeoutMillis |-> 1000,
     AcceptsGzip |-> TRUE]

\* fmt's %v of a product: the earlier revision holds Product values in its
\* map, main.go holds *Product, which %v prints with a leading &
FormatProduct(prog, p) ==
    (IF prog = "main.go" THEN "&{" ELSE "{")
        \o p.ID \o " " \o p.Name \o " " \o ToString(p.Price) \o "}"

\* one line of output and the statement that wrote it
Line(by, text) == [by |-> by, text |-> text]

----------------------------------------------------------------------------
(* What the delivery service may answer *)

\* content IDs a response may carry: the two of the catalog and one the
\* catalog does not have (a cached item)
ResponseContentIds == {"1", "2", "9"}

ExecutionServers == {"API", "SDK"}

\* the insertion lists a response may carry, in any order, with repeats
ResponseLists ==
    UNION {[1..n -> [ContentId : ResponseContentIds]] : n \in 0..MaxResp}

DeliveryResponses ==
    [ExecutionServer : ExecutionServers,
     ClientRequestID : {"crid-1"},
     Response : [Insertion : ResponseLists]]

----------------------------------------------------------------------------
(* main: one action per step *)

Environments ==
    [METRICS_API_ENDPOINT_URL : StringEnvValues,
     METRICS_API_KEY : StringEnvValues,
     DELIVERY_API_ENDPOINT_URL : StringEnvValues,
     DELIVERY_API_KEY : StringEnvValues,
     ONLY_LOG : BoolEnvValues,
     SHADOW_TRAFFIC_DELIVERY_RATE : FloatEnvValues,
     BLOCKING_SHADOW_TRAFFIC : BlockingEnvValues]

\* the state main starts in, whatever the environment
Start ==
    /\ pc = "loadConfig"
    /\ config = Nil
    /\ envReads = << >>
    /\ stdout = << >>
    /\ stderr = << >>
    /\ exitCode = -1
    /\ client = Nil
    /\ products = << >>
    /\ productsMap = << >>
    /\ requestInsertions = << >>
    /\ req = Nil
    /\ deliverCalls = 0
    /\ response = Nil
    /\ idx = 0
    /\ steps = << >>

Init ==
    /\ program \in Programs
    /\ env \in Environments
    /\ Start

Read(fn, key) == [fn |-> fn, key |-> key]

\* a function call that panics: the runtime writes the panic to standard
\* error and the process exits with status 2
Panic(msg) ==
    /\ stdout' = Append(stdout, Line("error", msg))
    /\ stderr' = Append(stderr, "panic")
    /\ exitCode' = 2
    /\ pc' = "panicked"

\* the Config literal with the delivery key read from the metrics key's
\* variable
LoadedConfigWrongKey(e) ==
    [MetricsApiEndpointUrl |-> Getenv(e, "METRICS_API_ENDPOINT_URL"),
     MetricsApiKey |-> Getenv(e, "METRICS_API_KEY"),
     DeliveryApiEndpointUrl |-> Getenv(e, "DELIVERY_API_ENDPOINT_URL"),
     DeliveryApiKey |-> Getenv(e, "METRICS_API_KEY"),
     OnlyLog |-> parseBoolEnv(e, "ONLY_LOG", FALSE),
     ShadowTrafficDeliveryRate |->
         parseFloatEnv(e, "SHADOW_TRAFFIC_DELIVERY_RATE", FloatZero),
     BlockingShadowTraffic |-> parseBoolEnv(e, "BLOCKING_SHADOW_TRAFFIC", FALSE)]

\* main.go:34-42: the Config literal
LoadedConfig(e) ==
    [MetricsApiEndpointUrl |-> Getenv(e, "METRICS_API_ENDPOINT_URL"),
     MetricsApiKey |-> Getenv(e, "METRICS_API_KEY"),
     DeliveryApiEndpointUrl |-> Getenv(e, "DELIVERY_API_ENDPOINT_URL"),
     DeliveryApiKey |-> Getenv(e, "DELIVERY_API_KEY"),
     OnlyLog |-> parseBoolEnv(e, "ONLY_LOG", FALSE),
     ShadowTrafficDeliveryRate |->
         parseFloatEnv(e, "SHADOW_TRAFFIC_DELIVERY_RATE", FloatZero),
     BlockingShadowTraffic |-> parseBoolEnv(e, "BLOCKING_SHADOW_TRAFFIC", FALSE)]

\* main.go:34-42: the fields of the literal are evaluated in order, one read
\* of the environment each
LoadConfig ==
    /\ pc = "loadConfig"
    /\ config' = LoadedConfig(env)
    /\ envReads' = envReads \o
        << Read("os.Getenv", "METRICS_API_ENDPOINT_URL"),
           Read("os.Getenv", "METRICS_API_KEY"),
           Read("os.Getenv", "DELIVERY_API_ENDPOINT_URL"),
           Read("os.Getenv", "DELIVERY_API_KEY"),
           Read("parseBoolEnv", "ONLY_LOG"),
           Read("parseFloatEnv", "SHADOW_TRAFFIC_DELIVERY_RATE"),
           Read("parseBoolEnv", "BLOCKING_SHADOW_TRAFFIC") >>
    /\ steps' = Append(steps, "loadConfig")
    /\ pc' = IF program = "part_000" THEN "banner" ELSE "validate"
    /\ UNCHANGED <<program, env, stdout, stderr, exitCode, client, products,
                   productsMap, requestInsertions, req, deliverCalls, response, idx>>

\* part_000:47-49, the earlier revision only: a banner and the metrics
\* endpoint, written before the configuration is validated
PrintBanner ==
    /\ pc = "banner"
    /\ stdout' = stdout \o << Line("banner", "Promoted Delivery Client"),
                              Line("banner", config.MetricsApiEndpointUrl) >>
    /\ steps' = Append(steps, "banner")
    /\ pc' = "validate"
    /\ UNCHANGED <<program, env, config, envReads, stderr, exitCode, client, products,
                   productsMap, requestInsertions, req, deliverCalls, response, idx>>

\* main.go:45-48
ValidateConfig ==
    /\ pc = "validate"
    /\ steps' = Append(steps, "validate")
    /\ LET err == validateConfig(config)
       IN  IF err # NoError
           THEN /\ stderr' = Append(stderr, "Error: " \o err)
                /\ exitCode' = 1
                /\ pc' = "exited"
           ELSE /\ pc' = "newClient"
                /\ UNCHANGED <<stderr, exitCode>>
    /\ UNCHANGED <<program, env, config, envReads, stdout, client, products,
                   productsMap, requestInsertions, req, deliverCalls, response, idx>>

\* main.go:51-55, Build() succeeds
NewClientOk ==
    /\ pc = "newClient"
    /\ steps' = Append(steps, "newClient")
    /\ client' = NewPromotedDeliveryClient(config)
    /\ pc' = "getProducts"
    /\ UNCHANGED <<program, env, config, envReads, stdout, stderr, exitCode, products,
                   productsMap, requestInsertions, req, deliverCalls, response, idx>>

\* main.go:51-55, Build() returns an error
NewClientFails ==
    /\ pc = "newClient"
    /\ steps' = Append(steps, "newClient")
    /\ Panic("Error initializing PromotedDeliveryClient")
    /\ UNCHANGED <<program, env, config, envReads, client, products,
                   productsMap, requestInsertions, req, deliverCalls, response, idx>>

\* main.go:58
RetrieveProducts ==
    /\ pc = "getProducts"
    /\ steps' = Append(steps, "getProducts")
    /\ products' = getProducts
    /\ pc' = "buildMap"
    /\ UNCHANGED <<program, env, config, envReads, stdout, stderr, exitCode, client,
                   productsMap, requestInsertions, req, deliverCalls, response, idx>>

\* main.go:61-64; in the earlier revision the same loop also builds the
\* insertions (part_000:68-75)
BuildProductsMap ==
    /\ pc = "buildMap"
    /\ steps' = Append(steps, "buildMap")
    /\ productsMap' = buildProductsMap(products, Len(products))
    /\ requestInsertions' =
        IF program = "part_000" THEN bareInsertions(products) ELSE requestInsertions
    /\ pc' = "buildRequest"
    /\ UNCHANGED <<program, env, config, envReads, stdout, stderr, exitCode, client,
                   products, req, deliverCalls, response, idx>>

\* main.go:67-72 (part_000:78-82)
BuildRequest ==
    /\ pc = "buildRequest"
    /\ steps' = Append(steps, "buildRequest")
    /\ LET ins == IF program = "part_000" THEN requestInsertions
                  ELSE newTestRequestInsertions(products)
           r == newTestRequest(ins, config.OnlyLog)
       IN  /\ requestInsertions' = ins
           /\ IF r.err
              THEN /\ Panic("newTestRequest failed")
                   /\ req' = req
              ELSE /\ req' = r.req
                   /\ pc' = "deliver"
                   /\ UNCHANGED <<stdout, stderr, exitCode>>
    /\ UNCHANGED <<program, env, config, envReads, client, products, productsMap,
                   deliverCalls, response, idx>>

\* main.go:75-79, Deliver returns a response
DeliverOk ==
    /\ pc = "deliver"
    /\ steps' = Append(steps, "deliver")
    /\ deliverCalls' = deliverCalls + 1
    /\ response' \in DeliveryResponses
    /\ pc' = "printHeader"
    /\ UNCHANGED <<program, env, config, envReads, stdout, stderr, exitCode, client,
                   products, productsMap, requestInsertions, req, idx>>

\* a failed Deliver that is tried once more before main gives up
DeliverRetries ==
    /\ pc = "deliver"
    /\ steps' = Append(steps, "deliver")
    /\ deliverCalls' = deliverCalls + 1
    /\ IF deliverCalls = 0
       THEN pc' = "deliver" /\ UNCHANGED <<stdout, stderr, exitCode>>
       ELSE Panic("Delivery called failed")
    /\ UNCHANGED <<program, env, config, envReads, client, products, productsMap,
                   requestInsertions, req, response, idx>>

\* main.go:75-79, Deliver returns an error
DeliverFails ==
    /\ pc = "deliver"
    /\ steps' = Append(steps, "deliver")
    /\ deliverCalls' = deliverCalls + 1
    /\ Panic("Delivery called failed")
    /\ UNCHANGED <<program, env, config, envReads, client, products, productsMap,
                   requestInsertions, req, response, idx>>

\* main.go:82-84
PrintHeader ==
    /\ pc = "printHeader"
    /\ steps' = Append(steps, "print")
    /\ stdout' = stdout \o
        << Line("executionServer", "Execution server: " \o response.ExecutionServer),
           Line("clientRequestID", "Client request ID: " \o response.ClientRequestID),
           Line("responseHeader", "Response") >>
    /\ idx' = 1
    /\ pc' = "printLoop"
    /\ UNCHANGED <<program, env, config, envReads, stderr, exitCode, client, products,
                   productsMap, requestInsertions, req, deliverCalls, response>>

\* the loop printing nothing for a content ID the catalog does not have
PrintInsertionSkipsUnknown ==
    /\ pc = "printLoop"
    /\ idx <= Len(response.Response.Insertion)
    /\ LET insertion == response.Response.Insertion[idx]
           ok == insertion.ContentId \in DOMAIN productsMap
       IN  stdout' =
               IF ok THEN Append(stdout, Line("result",
                              FormatProduct(program, productsMap[insertion.ContentId])))
               ELSE stdout
    /\ idx' = idx + 1
    /\ UNCHANGED <<program, env, pc, config, envReads, stderr, exitCode, client, products,
                   productsMap, requestInsertions, req, deliverCalls, response, steps>>

\* main.go:85-93, one iteration of the range loop
PrintInsertion ==
    /\ pc = "printLoop"
    /\ idx <= Len(response.Response.Insertion)
    /\ LET insertion == response.Response.Insertion[idx]
           ok == insertion.ContentId \in DOMAIN productsMap
       IN  stdout' = Append(stdout, Line("result",
               IF ok THEN FormatProduct(program, productsMap[insertion.ContentId])
               ELSE insertion.ContentId))
    /\ idx' = idx + 1
    /\ UNCHANGED <<program, env, pc, config, envReads, stderr, exitCode, client, products,
                   productsMap, requestInsertions, req, deliverCalls, response, steps>>

\* main.go:94: the loop is over and main returns
Return ==
    /\ pc = "printLoop"
    /\ idx > Len(response.Response.Insertion)
    /\ exitCode' = 0
    /\ pc' = "done"
    /\ UNCHANGED <<program, env, config, envReads, stdout, stderr, client, products,
                   productsMap, requestInsertions, req, deliverCalls, response, idx, steps>>

Next ==
    \/ LoadConfig
    \/ PrintBanner
    \/ ValidateConfig
    \/ NewClientOk
    \/ NewClientFails
    \/ RetrieveProducts
    \/ BuildProductsMap
    \/ BuildRequest
    \/ DeliverOk
    \/ DeliverFails
    \/ PrintHeader
    \/ PrintInsertion
    \/ Return

Spec == Init /\ [][Next]_vars

----------------------------------------------------------------------------
(* newTestRequestInsertions on any product list: main from the return of   *)
(* getProducts (main.go:58) to the call of Deliver, with the product list   *)
(* drawn from a bounded set instead of the fixed catalog                    *)

ProductIds == {"1", "2", "3"}

ProductPrices == {0, 100, 205}

AnyProducts == [ID : ProductIds, Name : {"Product"}, Price : ProductPrices]

ProductLists == UNION {[1..n -> AnyProducts] : n \in 0..MaxProducts}

ValidEnv ==
    [METRICS_API_ENDPOINT_URL |-> Set("https://x.promoted.ai"),
     METRICS_API_KEY |-> Set("https://x.promoted.ai"),
     DELIVERY_API_ENDPOINT_URL |-> Set("https://x.promoted.ai"),
     DELIVERY_API_KEY |-> Set("https://x.promoted.ai"),
     ONLY_LOG |-> Set("true"),
     SHADOW_TRAFFIC_DELIVERY_RATE |-> Unset(<< >>),
     BLOCKING_SHADOW_TRAFFIC |-> Unset("")]

InitInsertions ==
    /\ program = "main.go"
    /\ env = ValidEnv
    /\ pc = "buildMap"
    /\ config = LoadedConfig(env)
    /\ envReads = << >>
    /\ stdout = << >>
    /\ stderr = << >>
    /\ exitCode = -1
    /\ client = NewPromotedDeliveryClient(config)
    /\ products \in ProductLists
    /\ productsMap = << >>
    /\ requestInsertions = << >>
    /\ req = Nil
    /\ deliverCalls = 0
    /\ response = Nil
    /\ idx = 0
    /\ steps = <<"loadConfig", "validate", "newClient", "getProducts">>

NextInsertions ==
    \/ BuildProductsMap
    \/ BuildRequest

SpecInsertions == InitInsertions /\ [][NextInsertions]_vars

----------------------------------------------------------------------------
(* Properties *)

Range(f) == {f[i] : i \in DOMAIN f}

\* the texts of the lines written by the statement "by", in order
TextsBy(by) ==
    LET sel == SelectSeq(stdout, LAMBDA l : l.by = by)
    IN  [i \in 1..Len(sel) |-> sel[i].text]

\* the line main is to print for a returned content ID
ExpectedResult(cid) ==
    IF \E p \in Range(getProducts) : p.ID = cid
    THEN FormatProduct(program, CHOOSE p \in Range(getProducts) : p.ID = cid)
    ELSE cid

\* C1: once Deliver has returned a response, the result lines are, in the
\* response's order, the catalog product of each insertion's ContentId, or
\* the ContentId itself when the catalog has none: while the loop runs they
\* are the lines of the insertions already visited, and when main returns
\* there is exactly one line per insertion of the response.
C1_ResultLines ==
    /\ pc \notin {"printLoop", "done"} => TextsBy("result") = << >>
    /\ pc \in {"printLoop", "done"} =>
        /\ TextsBy("result") =
             [i \in 1..(idx - 1) |-> ExpectedResult(response.Response.Insertion[i].ContentId)]
        /\ idx - 1 <= Len(response.Response.Insertion)
    /\ pc = "done" => Len(TextsBy("result")) = Len(response.Response.Insertion)

C1_Witness ==
    /\ pc = "done"
    /\ response.Response.Insertion =
         <<[ContentId |-> "2"], [ContentId |-> "9"], [ContentId |-> "1"]>>
    /\ Len(TextsBy("result")) = 3

\* the steps of a complete run, in order
FullSteps(prog) ==
    IF prog = "part_000"
    THEN <<"loadConfig", "banner", "validate", "newClient", "getProducts",
           "buildMap", "buildRequest", "deliver", "print">>
    ELSE <<"loadConfig", "validate", "newClient", "getProducts",
           "buildMap", "buildRequest", "deliver", "print">>

IsPrefix(a, b) == Len(a) <= Len(b) /\ a = SubSeq(b, 1, Len(a))

ResponseOutput == {"executionServer", "clientRequestID", "responseHeader", "result"}

\* C2: the steps a run has started are always a prefix of the one fixed
\* sequence load config, validate, new client, products, request, Deliver,
\* print (no step out of order, none repeated), a run that returns has made
\* all of them, Deliver is called at most once, and nothing of the response
\* is printed before Deliver has returned it.
C2_LinearRun ==
    /\ IsPrefix(steps, FullSteps(program))
    /\ pc = "done" => steps = FullSteps(program)
    /\ deliverCalls <= 1
    /\ deliverCalls = 1 <=> "deliver" \in Range(steps)
    /\ (\E i \in 1..Len(stdout) : stdout[i].by \in ResponseOutput) =>
           /\ deliverCalls = 1
           /\ response # Nil
           /\ req # Nil

C2_Witness ==
    /\ pc = "done"
    /\ deliverCalls = 1
    /\ Len(TextsBy("result")) = 2
    /\ Len(TextsBy("executionServer")) = 1

\* the required variables that are unset or empty in the environment
MissingRequired ==
    {i \in 1..Len(RequiredKeys) :
        ~env[RequiredKeys[i]].exists \/ env[RequiredKeys[i]].val = ""}

ValidationDone == "validate" \in Range(steps)

\* C3: with a required variable unset or empty, no client is built, no request
\* is built and Deliver is not called, and once validation has run the program
\* has written one error to standard error and exited with status 1; with all
\* four non-empty, validation passes and client construction is what follows.
C3_RequiredVariables ==
    /\ MissingRequired # {} =>
        /\ client = Nil /\ req = Nil /\ deliverCalls = 0
        /\ "newClient" \notin Range(steps)
        /\ ValidationDone =>
             /\ pc = "exited" /\ exitCode = 1
             /\ Len(stderr) = 1
             /\ TextsBy("error") = << >>
    /\ (MissingRequired = {} /\ ValidationDone) =>
        /\ pc # "exited" /\ exitCode # 1
        /\ pc = "newClient" \/ "newClient" \in Range(steps)

C3_Witness ==
    /\ pc = "exited"
    /\ exitCode = 1
    /\ ~env["DELIVERY_API_KEY"].exists
    /\ MissingRequired = {4}

CoercingReads == {"parseBoolEnv", "parseFloatEnv"}

\* C4 as stated: configuration parsing is exactly four reads of the
\* environment, each coercing the type and falling back to a default.
C4_FourCoercingReads ==
    pc # "loadConfig" =>
        /\ Len(envReads) = 4
        /\ \A i \in 1..Len(envReads) : envReads[i].fn \in CoercingReads

\* C4, amended: configuration parsing is exactly seven reads of the
\* environment: the four required variables are read with os.Getenv into
\* string fields as they are (no coercion; an unset variable reads as the
\* empty string), then ONLY_LOG, SHADOW_TRAFFIC_DELIVERY_RATE and
\* BLOCKING_SHADOW_TRAFFIC are read with coercion to bool, float64 and bool,
\* falling back to false, 0.0 and false when unset.
C4_SevenReads ==
    pc # "loadConfig" =>
        /\ Len(envReads) = 7
        /\ \A i \in 1..4 :
             /\ envReads[i] = Read("os.Getenv", RequiredKeys[i])
        /\ <<config.MetricsApiEndpointUrl, config.MetricsApiKey,
             config.DeliveryApiEndpointUrl, config.DeliveryApiKey>> =
           [i \in 1..4 |-> IF env[RequiredKeys[i]].exists
                           THEN env[RequiredKeys[i]].val ELSE ""]
        /\ SubSeq(envReads, 5, 7) =
             << Read("parseBoolEnv", "ONLY_LOG"),
                Read("parseFloatEnv", "SHADOW_TRAFFIC_DELIVERY_RATE"),
                Read("parseBoolEnv", "BLOCKING_SHADOW_TRAFFIC") >>
        /\ config.OnlyLog \in BOOLEAN
        /\ config.BlockingShadowTraffic \in BOOLEAN
        /\ ~env["ONLY_LOG"].exists => config.OnlyLog = FALSE
        /\ ~env["SHADOW_TRAFFIC_DELIVERY_RATE"].exists =>
               config.ShadowTrafficDeliveryRate = FloatZero
        /\ ~env["BLOCKING_SHADOW_TRAFFIC"].exists => config.BlockingShadowTraffic = FALSE

C4_Witness ==
    /\ pc = "validate"
    /\ Len(envReads) = 7
    /\ ~env["ONLY_LOG"].exists
    /\ env["METRICS_API_KEY"] = Set("https://x.promoted.ai")
    /\ config.MetricsApiKey = "https://x.promoted.ai"

GoTrue == {"1", "t", "T", "TRUE", "true", "True"}

\* a number of the request, as the float64 it is sent as
Number(mant, exp) == [kind |-> "number", number |-> [kind |-> "finite", mant |-> mant, exp |-> exp]]

\* the insertions of the fixed two-product catalog, written out
CatalogInsertions(prog) ==
    IF prog = "part_000"
    THEN << [ContentId |-> "1", Properties |-> Nil],
            [ContentId |-> "2", Properties |-> Nil] >>
    ELSE << [ContentId |-> "1", Properties |->
                [StructField |-> [Struct |-> [fields |-> [price |-> Number(1, 2)]]]]],
            [ContentId |-> "2", Properties |->
                [StructField |-> [Struct |-> [fields |-> [price |-> Number(2, 2)]]]]] >>

\* the request of every run, but for OnlyLog, written out
StaticRequest(prog) ==
    [UserInfo |-> [AnonUserId |-> "testAnonUserId1", UserId |-> "testUserId1"],
     UseCase |-> "SEARCH",
     SearchQuery |-> "query",
     Paging |-> [Starting |-> [Offset |-> 0], Size |-> 3],
     DisablePersonalization |-> FALSE,
     Properties |-> [StructField |-> [Struct |-> [fields |->
         [category |-> [kind |-> "string", str |-> "topic"],
          priceMin |-> Number(1, 1)]]]],
     Insertion |-> CatalogInsertions(prog)]

\* C5: the request a run passes to Deliver is the same static request in
\* every run of the program, whatever the environment, but for OnlyLog, which
\* is true exactly when ONLY_LOG is set to one of Go's spellings of true.
C5_StaticRequest ==
    /\ req # Nil =>
        /\ req.Request = StaticRequest(program)
        /\ req.OnlyLog = (env["ONLY_LOG"].exists /\ env["ONLY_LOG"].val \in GoTrue)
    /\ deliverCalls = 1 => req # Nil

C5_Witness ==
    /\ deliverCalls = 1
    /\ req.OnlyLog = TRUE
    /\ env["ONLY_LOG"] = Set("1")
    /\ env["SHADOW_TRAFFIC_DELIVERY_RATE"] = Set(<<"0", ".", "5">>)

ValidateErrors ==
    << "metricsApiEndpointUrl needs to be specified",
       "metricsApiKey needs to be specified",
       "deliveryApiEndpointUrl needs to be specified",
       "deliveryApiKey needs to be specified" >>

Min(S) == CHOOSE x \in S : \A y \in S : x <= y

EmptyFields(c) ==
    LET f == <<c.MetricsApiEndpointUrl, c.MetricsApiKey,
               c.DeliveryApiEndpointUrl, c.DeliveryApiKey>>
    IN  {i \in 1..4 : f[i] = ""}

\* C6: on every configuration main loads, validateConfig returns nil exactly
\* when the four required fields are all non-empty, and otherwise the one
\* error of the first empty field in the order metrics endpoint, metrics key,
\* delivery endpoint, delivery key (the one main then reports); changing
\* OnlyLog, ShadowTrafficDeliveryRate or BlockingShadowTraffic changes nothing.
C6_ValidateConfig ==
    config # Nil =>
        /\ validateConfig(config) = NoError <=> EmptyFields(config) = {}
        /\ EmptyFields(config) # {} =>
             validateConfig(config) = ValidateErrors[Min(EmptyFields(config))]
        /\ \A b1, b2 \in BOOLEAN :
           \A r \in {FloatZero, ParseFloat(<<"0", ".", "5">>).value} :
             validateConfig([config EXCEPT !.OnlyLog = b1,
                                           !.BlockingShadowTraffic = b2,
                                           !.ShadowTrafficDeliveryRate = r])
               = validateConfig(config)
        /\ pc = "exited" =>
             stderr = <<"Error: " \o ValidateErrors[Min(EmptyFields(config))]>>
        /\ (ValidationDone /\ pc # "exited") => EmptyFields(config) = {}

C6_Witness ==
    /\ pc = "exited"
    /\ EmptyFields(config) = {2, 4}
    /\ stderr = <<"Error: metricsApiKey needs to be specified">>

\* what SHADOW_TRAFFIC_DELIVERY_RATE is to be read as, value by value
ExpectedRate(v) ==
    CASE ~v.exists -> FloatZero
      [] v = Set(<<"0", ".", "5">>) -> [kind |-> "finite", mant |-> 5, exp |-> -1]
      [] v = Set(<<"5", "e", "-", "1">>) -> [kind |-> "finite", mant |-> 5, exp |-> -1]
      [] v = Set(<<"1">>) -> [kind |-> "finite", mant |-> 1, exp |-> 0]
      [] v = Set(<<"-", "2", ".", "5", "0">>) -> [kind |-> "finite", mant |-> -25, exp |-> -1]
      [] v = Set(<<"I", "n", "f">>) -> [kind |-> "+inf", mant |-> 0, exp |-> 0]
      [] OTHER -> FloatZero

GoFalse == {"0", "f", "F", "FALSE", "false", "False"}

\* what a boolean variable is to be read as with the default false
ExpectedBool(v) ==
    IF v.exists /\ v.val \in GoTrue THEN TRUE
    ELSE IF v.exists /\ v.val \in GoFalse THEN FALSE
    ELSE FALSE

Last(q) == q[Len(q)]

\* C7: whatever ONLY_LOG, BLOCKING_SHADOW_TRAFFIC and
\* SHADOW_TRAFFIC_DELIVERY_RATE hold, the loaded configuration has the
\* parsed value where the variable parses and the default (false, 0.0) where
\* it is unset, empty or does not parse, and the run does not fail for it:
\* it exits with status 1 only for a required variable, and panics only at
\* the two calls of the client library.
C7_OptionalVariables ==
    /\ config # Nil =>
        /\ config.OnlyLog = ExpectedBool(env["ONLY_LOG"])
        /\ config.BlockingShadowTraffic = ExpectedBool(env["BLOCKING_SHADOW_TRAFFIC"])
        /\ config.ShadowTrafficDeliveryRate = ExpectedRate(env["SHADOW_TRAFFIC_DELIVERY_RATE"])
    /\ pc # "loadConfig" => config # Nil
    /\ pc = "exited" => MissingRequired # {}
    /\ pc = "panicked" => Last(steps) \in {"newClient", "deliver"}

C7_Witness ==
    /\ pc = "done"
    /\ env["ONLY_LOG"] = Set("yes")
    /\ env["BLOCKING_SHADOW_TRAFFIC"] = Set("on")
    /\ env["SHADOW_TRAFFIC_DELIVERY_RATE"] = Set(<<"1", "e", "4", "0", "0">>)
    /\ config.ShadowTrafficDeliveryRate = FloatZero

RECURSIVE Pow10(_)
Pow10(n) == IF n = 0 THEN 1 ELSE 10 * Pow10(n - 1)

\* the integer a number value of the request stands for
IntOf(v) == v.number.mant * Pow10(v.number.exp)

\* C8: for every product list, newTestRequestInsertions returns as many
\* insertions as there are products, the i-th with the i-th product's ID as
\* ContentId and that product's price as its "price" property, so that every
\* ContentId of the request is a key of the productsMap main built from the
\* same list.
C8_Insertions ==
    pc = "deliver" =>
        /\ Len(requestInsertions) = Len(products)
        /\ req.Request.Insertion = requestInsertions
        /\ \A i \in 1..Len(products) :
             LET ins == req.Request.Insertion[i]
                 price == ins.Properties.StructField.Struct.fields.price
             IN  /\ ins.ContentId = products[i].ID
                 /\ DOMAIN ins.Properties.StructField.Struct.fields = {"price"}
                 /\ price.kind = "number"
                 /\ price.number.kind = "finite"
                 /\ price.number.exp >= 0
                 /\ IntOf(price) = products[i].Price
                 /\ ins.ContentId \in DOMAIN productsMap
                 /\ productsMap[ins.ContentId].ID = ins.ContentId

C8_Witness ==
    /\ pc = "deliver"
    /\ Len(products) = 2
    /\ products[1].ID = products[2].ID
    /\ products[1].Price = 205
    /\ products[2].Price = 100
    /\ Len(requestInsertions) = 2

====
